---- MODULE Spec2Model ----
(***************************************************************************)
(* Visitor tracking and statistics of src/app.py: the visitors table, the   *)
(* home handler with track_visitor, and the read-side operations            *)
(* get_visitor_stats, get_live_visitors, recent_visitors, visitor_count     *)
(* and get_time_ago.                                                        *)
(*                                                                          *)
(* Time is counted in whole seconds.  utc is the store's clock (SQLite      *)
(* CURRENT_TIMESTAMP, which is UTC and has one-second resolution); the      *)
(* handlers read datetime.now(), the naive local clock utc + tz, which      *)
(* also carries microseconds (frac).  Timestamps are compared by SQLite as  *)
(* TEXT: 'YYYY-MM-DD HH:MM:SS' against 'YYYY-MM-DD HH:MM:SS.ffffff'.        *)
(***************************************************************************)
EXTENDS Integers, Sequences, FiniteSets, TLC

VARIABLES
    utc,        \* store clock, seconds (CURRENT_TIMESTAMP)
    tz,         \* offset of the server's local clock from UTC, seconds
    ticks,      \* number of clock advances so far
    rows,       \* committed rows of table visitors, in id order
    lock,       \* the connection holding SQLite's write (RESERVED) lock
    pc,         \* position of each request handler
    req,        \* home: the request being served (ip, user_agent, page asset)
    pend,       \* track_visitor: the inserted, not yet committed row
    ret,        \* track_visitor: its outcome (True / False / raised)
    conn,       \* the local variable conn of the running/last operation
    nTrue,      \* number of track_visitor calls that returned True
    response,   \* home: the HTTP response being delivered by each client
    call,       \* reader: the operation and its parameters
    acc,        \* reader: values gathered by the queries issued so far
    res,        \* reader: the result being returned
    ago         \* the latest get_time_ago evaluation (age, label)

vars == <<utc, tz, ticks, rows, lock, pc, req, pend, ret, conn,
          nTrue, response, call, acc, res, ago>>

\* ------------------------------------------------------------- bounds
MaxVisits == 2
MaxConcurrentVisits == 2
MaxTicks == 1
AgeSpan == 12

\* ---------------------------------------------------- program constants
SecPerMin == 60
SecPerHour == 3600
SecPerDay == 86400
WeekDays == 7
MonthDays == 30
DayHours == 24
DefaultMinutes == 5
DefaultLimit == 20
HTTP_OK == 200
HTTP_NOT_FOUND == 404
HTTP_SERVER_ERROR == 500

Clients == {"c1", "c2"}
Readers == {"r1"}
Procs == Clients \cup Readers

\* The (address, user-agent) pairs requests arrive with.
Identities == {<<"a", "x">>, <<"a", "y">>, <<"b", "x">>}
Assets == {"present", "missing", "unreadable"}
NoRequest == [ip |-> "", user_agent |-> ""]
NoResponse == [status |-> 0]
NoCall == [op |-> "none"]
NoAcc == [n |-> 0]
NoResult == [op |-> "none"]

\* Offsets of the local clock and the clock's starting point and advances.
Offsets == {0 - 2 * SecPerHour, 0, 2 * SecPerHour}
Start == 100 * SecPerDay + 23 * SecPerHour
Jumps == {23 * SecPerHour, 25 * SecPerHour}

None == {}
Some(v) == {v}
Value(o) == CHOOSE v \in o : TRUE
\* Python truthiness of an optional int: None and 0 are false.
Truthy(o) == o # None /\ o # Some(0)

Min(a, b) == IF a < b THEN a ELSE b

\* ------------------------------------------------------------- clocks
\* datetime.now(): naive local time; frac says the microsecond part is not 0.
LocalNow(f) == [sec |-> utc + tz, frac |-> f]
\* datetime - timedelta(seconds = d)
MinusAdds(t, d) == [sec |-> t.sec + d, frac |-> t.frac]
Minus(t, d) == [sec |-> t.sec - d, frac |-> t.frac]
\* strftime('%Y-%m-%d') of a datetime, and SQLite's DATE(timestamp): day numbers
StrfDate(t) == t.sec \div SecPerDay
DATE(ts) == ts \div SecPerDay
\* SQLite "timestamp >= ?" with a datetime parameter: a comparison of texts.
\* The stored text has no fraction, the parameter has one unless it is zero,
\* so within the same second the stored text is a proper prefix and is smaller.
TimestampGE(ts, t) == ts > t.sec \/ (ts = t.sec /\ ~t.frac)

\* ------------------------------------------------------------ queries
\* The WHERE clauses of the program's statements.
All == [kind |-> "all"]
OnDate(d) == [kind |-> "on_date", date |-> d]
SinceDate(d) == [kind |-> "since_date", date |-> d]
SinceTime(t) == [kind |-> "since_time", time |-> t]
Where(x, w) ==
    CASE w.kind = "all" -> TRUE
      [] w.kind = "on_date" -> DATE(x.timestamp) = w.date
      [] w.kind = "since_date" -> DATE(x.timestamp) >= w.date
      [] w.kind = "since_time" -> TimestampGE(x.timestamp, w.time)
Matching(R, w) == {i \in DOMAIN R : Where(R[i], w)}
\* SELECT COUNT(*) FROM visitors WHERE w
CountRows(R, w) == Cardinality(Matching(R, w))

\* The key of COUNT(DISTINCT ip): the client address alone.
PairKey(r) == <<r.ip, r.user_agent>>
DistinctKey(r) == r.ip
\* SELECT COUNT(DISTINCT ip) FROM visitors WHERE w
CountDistinct(R, w) == Cardinality({DistinctKey(R[i]) : i \in Matching(R, w)})

\* ORDER BY timestamp DESC: every order of the row numbers of R (restricted to
\* those satisfying w) in which timestamps do not increase.  The statement names
\* no second key, so rows sharing a timestamp come in an order SQL leaves open.
OrderByTimestampDesc(R, w) ==
    LET S == Matching(R, w)
        n == Cardinality(S)
    IN  {s \in [1..n -> S] :
            /\ \A i, j \in 1..n : i # j => s[i] # s[j]
            /\ \A i, j \in 1..n : i < j => R[s[i]].timestamp >= R[s[j]].timestamp}
\* LIMIT ?: a negative limit means no limit in SQLite.
LIMIT(s, n) == IF n < 0 THEN s ELSE SubSeq(s, 1, Min(n, Len(s)))

\* ------------------------------------------------------- get_time_ago
PluralSFromOne(n) == IF n >= 1 THEN "s" ELSE ""
PluralS(n) == IF n > 1 THEN "s" ELSE ""
\* get_time_ago(timestamp_str) evaluated when datetime.now() is now: both are
\* naive datetimes, diff == now - timestamp in seconds.  int() of a positive
\* quotient is its floor; the microseconds of now do not change either.
get_time_ago(timestamp, now) ==
    LET diff == now - timestamp
    IN  IF diff < SecPerMin THEN "just now"
        ELSE IF diff < SecPerHour
             THEN LET minutes == diff \div SecPerMin
                  IN ToString(minutes) \o " minute" \o PluralS(minutes) \o " ago"
        ELSE IF diff < SecPerDay
             THEN LET hours == diff \div SecPerHour
                  IN ToString(hours) \o " hour" \o PluralS(hours) \o " ago"
        ELSE LET days == diff \div SecPerDay
             IN ToString(days) \o " day" \o PluralS(days) \o " ago"

\* ---------------------------------------------------------- the store
NoRow == <<>>
\* INSERT INTO visitors (ip, user_agent, page): id from AUTOINCREMENT,
\* timestamp from DEFAULT CURRENT_TIMESTAMP.
NewRow(R, ip, ua, page) ==
    [id |-> Len(R) + 1, ip |-> ip, user_agent |-> ua, timestamp |-> utc, page |-> page]
\* conn.commit(): the pending row becomes part of the table.
CommitRowLost(R, p) == R
CommitRow(R, p) == R \o p

Init ==
    /\ utc = Start
    /\ tz \in Offsets
    /\ ticks = 0
    /\ rows = <<>>
    /\ lock = None
    /\ pc = [p \in Procs |-> "idle"]
    /\ req = [p \in Clients |-> NoRequest]
    /\ pend = [p \in Clients |-> NoRow]
    /\ ret = [p \in Clients |-> "none"]
    /\ conn = [p \in Procs |-> "unbound"]
    /\ nTrue = 0
    /\ response = [p \in Clients |-> NoResponse]
    /\ call = NoCall
    /\ acc = NoAcc
    /\ res = NoResult
    /\ ago = [age |-> 0 - 1, label |-> ""]

readerVars == <<call, acc, res>>
clientVars == <<rows, lock, req, pend, ret, nTrue, response>>
clockVars == <<utc, tz, ticks>>

\* Time passes.
Tick(d) ==
    /\ ticks < MaxTicks
    /\ utc' = utc + d
    /\ ticks' = ticks + 1
    /\ UNCHANGED <<tz, pc, conn, ago>>
    /\ UNCHANGED clientVars /\ UNCHANGED readerVars

\* ------------------------------------------------------ home, lines 249-278
\* get_client_ip and the User-Agent header give the identifier of the request;
\* the handler then calls track_visitor(ip, user_agent, "/").
HomeBegin(p, ip, ua) ==
    /\ pc[p] = "idle"
    /\ req' = [req EXCEPT ![p] = [ip |-> ip, user_agent |-> ua]]
    /\ pc' = [pc EXCEPT ![p] = "tv_connect"]
    /\ conn' = [conn EXCEPT ![p] = "unbound"]
    /\ UNCHANGED <<rows, lock, pend, ret, nTrue, response, ago>>
    /\ UNCHANGED readerVars /\ UNCHANGED clockVars

\* ------------------------------------------- track_visitor, lines 78-95
\* conn = sqlite3.connect(DATABASE).  When it raises, conn is never bound:
\* the except clause chooses "return False", then the finally clause evaluates
\* "if conn" and raises UnboundLocalError, which replaces the return.
TvConnect(p, fault) ==
    /\ pc[p] = "tv_connect"
    /\ IF fault
       THEN /\ ret' = [ret EXCEPT ![p] = "raised"]
            /\ pc' = [pc EXCEPT ![p] = "serve"]
            /\ conn' = conn
       ELSE /\ conn' = [conn EXCEPT ![p] = "open"]
            /\ pc' = [pc EXCEPT ![p] = "tv_insert"]
            /\ ret' = ret
    /\ UNCHANGED <<rows, lock, req, pend, nTrue, response, ago>>
    /\ UNCHANGED readerVars /\ UNCHANGED clockVars

\* c.execute("INSERT ..."): opens the write transaction.  It fails when another
\* connection holds the write lock (database is locked) or on any other fault.
TvInsert(p, fault) ==
    /\ pc[p] = "tv_insert"
    /\ IF fault \/ lock # None
       THEN /\ ret' = [ret EXCEPT ![p] = "False"]
            /\ pc' = [pc EXCEPT ![p] = "tv_close"]
            /\ UNCHANGED <<lock, pend>>
       ELSE /\ lock' = Some(p)
            /\ pend' = [pend EXCEPT ![p] =
                           <<NewRow(rows, req[p].ip, req[p].user_agent, "/")>>]
            /\ pc' = [pc EXCEPT ![p] = "tv_commit"]
            /\ ret' = ret
    /\ req' = [req EXCEPT ![p] = NoRequest]
    /\ UNCHANGED <<rows, conn, nTrue, response, ago>>
    /\ UNCHANGED readerVars /\ UNCHANGED clockVars

\* conn.commit(), then "return True"; on a fault the except clause chooses
\* "return False" and the transaction stays open until the connection closes.
CommitReturnAlwaysTrue(fault) == "True"
CommitReturn(fault) == IF fault THEN "False" ELSE "True"

TvCommit(p, fault) ==
    /\ pc[p] = "tv_commit"
    /\ IF fault
       THEN UNCHANGED <<rows, lock, pend>>
       ELSE /\ rows' = CommitRow(rows, pend[p])
            /\ lock' = None
            /\ pend' = [pend EXCEPT ![p] = NoRow]
    /\ ret' = [ret EXCEPT ![p] = CommitReturn(fault)]
    /\ pc' = [pc EXCEPT ![p] = "tv_close"]
    /\ UNCHANGED <<req, conn, nTrue, response, ago>>
    /\ UNCHANGED readerVars /\ UNCHANGED clockVars

\* finally: if conn: conn.close() -- an uncommitted transaction is rolled
\* back and its lock released; then track_visitor returns to home.
TvClose(p) ==
    /\ pc[p] = "tv_close"
    /\ conn' = [conn EXCEPT ![p] = "closed"]
    /\ lock' = IF lock = Some(p) THEN None ELSE lock
    /\ pend' = [pend EXCEPT ![p] = NoRow]
    /\ nTrue' = IF ret[p] = "True" THEN nTrue + 1 ELSE nTrue
    /\ pc' = [pc EXCEPT ![p] = "serve"]
    /\ UNCHANGED <<rows, req, ret, response, ago>>
    /\ UNCHANGED readerVars /\ UNCHANGED clockVars

\* The rest of home.  An exception out of track_visitor reaches
\* "except Exception" and becomes status 500; otherwise the page asset is
\* looked up (404 when missing) and read (500 when the read raises).
HomeStatus(tracked, asset) ==
    IF tracked = "raised" THEN HTTP_SERVER_ERROR
    ELSE IF asset = "missing" THEN HTTP_NOT_FOUND
    ELSE IF asset = "unreadable" THEN HTTP_SERVER_ERROR
    ELSE HTTP_OK

HomeServe(p, asset) ==
    /\ pc[p] = "serve"
    /\ response' = [response EXCEPT ![p] =
                       [status |-> HomeStatus(ret[p], asset),
                        tracked |-> ret[p], asset |-> asset]]
    /\ pc' = [pc EXCEPT ![p] = "done"]
    /\ req' = [req EXCEPT ![p] = NoRequest]
    /\ ret' = [ret EXCEPT ![p] = "none"]
    /\ UNCHANGED <<rows, lock, pend, conn, nTrue, ago>>
    /\ UNCHANGED readerVars /\ UNCHANGED clockVars

\* The response has been delivered; the handler's frame is gone.
HomeEnd(p) ==
    /\ pc[p] = "done"
    /\ response' = [response EXCEPT ![p] = NoResponse]
    /\ conn' = [conn EXCEPT ![p] = "unbound"]
    /\ pc' = [pc EXCEPT ![p] = "idle"]
    /\ UNCHANGED <<rows, lock, req, pend, ret, nTrue, ago>>
    /\ UNCHANGED readerVars /\ UNCHANGED clockVars

\* ------------------------------------------------------- the read side
Minutes == {DefaultMinutes}
Limits == {1, 2, DefaultLimit}
OptDays == {None, Some(1)}
OptHours == {None, Some(0), Some(DayHours)}
Calls ==
    {[op |-> "stats"]}
    \cup {[op |-> "live", minutes |-> m] : m \in Minutes}
    \cup {[op |-> "recent", limit |-> n] : n \in Limits}
    \cup {[op |-> "count", days |-> d, hours |-> h] : d \in OptDays, h \in OptHours}

FirstQuery(op) ==
    CASE op = "stats" -> "gs_total"
      [] op = "live" -> "lv_rows"
      [] op = "recent" -> "rv_rows"
      [] op = "count" -> "vc_count"
QueryPcs == {"gs_total", "gs_today", "gs_week", "gs_month", "gs_unique", "gs_24h",
             "lv_rows", "lv_unique", "rv_rows", "vc_count", "vc_unique"}

\* What each operation returns from its except clause.
ErrorResult(c) ==
    CASE c.op = "stats" ->
           [op |-> "stats", ok |-> FALSE, status |-> HTTP_OK,
            total_visitors |-> 0, today_visitors |-> 0, week_visitors |-> 0,
            month_visitors |-> 0, unique_visitors |-> 0, last_24h_visitors |-> 0]
      [] c.op = "live" ->
           [op |-> "live", ok |-> FALSE, status |-> HTTP_OK,
            total |-> 0, unique |-> 0, time_period_minutes |-> c.minutes]
      [] c.op = "recent" ->
           [op |-> "recent", ok |-> FALSE, status |-> HTTP_SERVER_ERROR,
            limit |-> c.limit]
      [] c.op = "count" ->
           [op |-> "count", ok |-> FALSE, status |-> HTTP_SERVER_ERROR,
            days |-> c.days, hours |-> c.hours]

\* The operation returns result to its caller.
Return(r, result) ==
    /\ res' = result
    /\ pc' = [pc EXCEPT ![r] = "done"]

\* A request for one of the four read operations arrives and the operation
\* starts with conn = sqlite3.connect(DATABASE); a fault there goes to the
\* except clause with conn never bound.
ReadBegin(r, c, fault) ==
    /\ pc[r] = "idle"
    /\ call' = c
    /\ IF fault
       THEN /\ Return(r, ErrorResult(c))
            /\ conn' = conn
       ELSE /\ conn' = [conn EXCEPT ![r] = "open"]
            /\ pc' = [pc EXCEPT ![r] = FirstQuery(c.op)]
            /\ res' = res
    /\ UNCHANGED <<acc, ago>> /\ UNCHANGED clientVars /\ UNCHANGED clockVars

\* A query raises: the except clause returns the error result.  None of the
\* read operations has a finally clause, so conn.close() is skipped; the
\* connection stays open until the runtime finalizes the object, if it does.
LeakedConnection(finalized) == IF finalized THEN "closed" ELSE "open"

ReadFault(r, finalized) ==
    /\ pc[r] \in QueryPcs
    /\ Return(r, ErrorResult(call))
    /\ conn' = [conn EXCEPT ![r] = LeakedConnection(finalized)]
    /\ acc' = NoAcc
    /\ UNCHANGED <<call, ago>> /\ UNCHANGED clientVars /\ UNCHANGED clockVars

\* One successful query that is not the last of its operation.
Query(r, from, to, a) ==
    /\ pc[r] = from
    /\ acc' = a
    /\ pc' = [pc EXCEPT ![r] = to]
    /\ UNCHANGED <<call, res, conn, ago>>
    /\ UNCHANGED clientVars /\ UNCHANGED clockVars

\* The last successful query, conn.close() and the return of the result.
LastQuery(r, from, result) ==
    /\ pc[r] = from
    /\ Return(r, result)
    /\ conn' = [conn EXCEPT ![r] = "closed"]
    /\ acc' = NoAcc
    /\ UNCHANGED <<call, ago>> /\ UNCHANGED clientVars /\ UNCHANGED clockVars

\* The result has been delivered; the operation's frame is gone.
ReadEnd(r) ==
    /\ pc[r] = "done"
    /\ res' = NoResult
    /\ call' = NoCall
    /\ conn' = [conn EXCEPT ![r] = "unbound"]
    /\ pc' = [pc EXCEPT ![r] = "idle"]
    /\ UNCHANGED <<acc, ago>>
    /\ UNCHANGED clientVars /\ UNCHANGED clockVars

\* ------------------------------------- get_visitor_stats, lines 97-153
GsTotal(r) ==
    Query(r, "gs_total", "gs_today", [total |-> CountRows(rows, All)])

GsToday(r) ==
    LET today == StrfDate(LocalNow(FALSE))
    IN  Query(r, "gs_today", "gs_week",
              [total |-> acc.total, today |-> CountRows(rows, OnDate(today))])

GsWeek(r) ==
    LET week_ago == StrfDate(Minus(LocalNow(FALSE), WeekDays * SecPerDay))
    IN  Query(r, "gs_week", "gs_month",
              [total |-> acc.total, today |-> acc.today,
               week |-> CountRows(rows, SinceDate(week_ago))])

GsMonth(r) ==
    LET month_ago == StrfDate(Minus(LocalNow(FALSE), MonthDays * SecPerDay))
    IN  Query(r, "gs_month", "gs_unique",
              [total |-> acc.total, today |-> acc.today, week |-> acc.week,
               month |-> CountRows(rows, SinceDate(month_ago))])

GsUnique(r) ==
    Query(r, "gs_unique", "gs_24h",
          [total |-> acc.total, today |-> acc.today, week |-> acc.week,
           month |-> acc.month, unique |-> CountDistinct(rows, All)])

Gs24h(r, f) ==
    LET day_ago == Minus(LocalNow(f), DayHours * SecPerHour)
    IN  LastQuery(r, "gs_24h",
                  [op |-> "stats", ok |-> TRUE, status |-> HTTP_OK,
                   total_visitors |-> acc.total, today_visitors |-> acc.today,
                   week_visitors |-> acc.week, month_visitors |-> acc.month,
                   unique_visitors |-> acc.unique,
                   last_24h_visitors |-> CountRows(rows, SinceTime(day_ago))])

\* ------------------------------------ get_live_visitors, lines 155-210
\* time_ago is computed once and used by both queries; "total" is the length
\* of the row list of the first query.
LvRows(r, f) ==
    LET time_ago == Minus(LocalNow(f), call.minutes * SecPerMin)
    IN  Query(r, "lv_rows", "lv_unique",
              [time_ago |-> time_ago, total |-> CountRows(rows, SinceTime(time_ago))])

LvUnique(r) ==
    LastQuery(r, "lv_unique",
              [op |-> "live", ok |-> TRUE, status |-> HTTP_OK,
               total |-> acc.total,
               unique |-> CountDistinct(rows, SinceTime(acc.time_ago)),
               time_period_minutes |-> call.minutes, time_ago |-> acc.time_ago])

\* -------------------------------------- recent_visitors, lines 291-320
\* Each entry carries the row and get_time_ago of its stored timestamp,
\* evaluated against the local clock.
RvRows(r, s) ==
    LET shown == LIMIT(s, call.limit)
    IN  LastQuery(r, "rv_rows",
                  [op |-> "recent", ok |-> TRUE, status |-> HTTP_OK,
                   limit |-> call.limit,
                   visitors |-> [i \in DOMAIN shown |->
                       [id |-> rows[shown[i]].id,
                        timestamp |-> rows[shown[i]].timestamp,
                        time_ago |-> get_time_ago(rows[shown[i]].timestamp,
                                                  utc + tz)]]])

\* ---------------------------------------- visitor_count, lines 322-364
\* "if hours: ... elif days: ... else: ..." -- hours wins when both are given.
Period(days, hours) ==
    IF Truthy(hours) THEN "hours" ELSE IF Truthy(days) THEN "days" ELSE "all time"

InPeriod(a) ==
    CASE a.period = "hours" -> SinceTime(a.time_filter)
      [] a.period = "days" -> SinceDate(a.time_filter)
      [] a.period = "all time" -> All

VcCount(r, f) ==
    LET period == Period(call.days, call.hours)
        time_filter ==
            CASE period = "hours" -> Minus(LocalNow(f), Value(call.hours) * SecPerHour)
              [] period = "days" ->
                   StrfDate(Minus(LocalNow(f), Value(call.days) * SecPerDay))
              [] period = "all time" -> 0
        a == [period |-> period, time_filter |-> time_filter]
    IN  Query(r, "vc_count", "vc_unique",
              [period |-> period, time_filter |-> time_filter,
               count |-> CountRows(rows, InPeriod(a))])

VcUnique(r) ==
    LastQuery(r, "vc_unique",
              [op |-> "count", ok |-> TRUE, status |-> HTTP_OK,
               total |-> acc.count, unique |-> CountDistinct(rows, InPeriod(acc)),
               period |-> acc.period, time_filter |-> acc.time_filter,
               days |-> call.days, hours |-> call.hours])

\* ------------------------------------------------------ specification
ClientStep(p) ==
    \/ \E i \in Identities : HomeBegin(p, i[1], i[2])
    \/ \E fault \in BOOLEAN : TvConnect(p, fault)
    \/ \E fault \in BOOLEAN : TvInsert(p, fault)
    \/ \E fault \in BOOLEAN : TvCommit(p, fault)
    \/ TvClose(p)
    \/ \E asset \in Assets : HomeServe(p, asset)
    \/ HomeEnd(p)

ReaderStep(r, calls) ==
    \/ \E c \in calls, fault \in BOOLEAN : ReadBegin(r, c, fault)
    \/ \E finalized \in BOOLEAN : ReadFault(r, finalized)
    \/ GsTotal(r) \/ GsToday(r) \/ GsWeek(r) \/ GsMonth(r) \/ GsUnique(r)
    \/ \E f \in BOOLEAN : Gs24h(r, f)
    \/ \E f \in BOOLEAN : LvRows(r, f)
    \/ LvUnique(r)
    \/ \E s \in OrderByTimestampDesc(rows, All) : RvRows(r, s)
    \/ \E f \in BOOLEAN : VcCount(r, f)
    \/ VcUnique(r)
    \/ ReadEnd(r)

AllIdle == \A q \in Procs : pc[q] = "idle"
OthersIdle(p) == \A q \in Procs \ {p} : pc[q] = "idle"
\* Visits recorded or under way.
Visits == Len(rows) + Cardinality({q \in Clients : pc[q] # "idle"})

\* Requests served one at a time; time passes between them.
NextSeq ==
    \/ \E d \in Jumps : AllIdle /\ Tick(d)
    \/ \E p \in Clients : /\ OthersIdle(p)
                           /\ (pc[p] = "idle" => Visits < MaxVisits)
                           /\ ClientStep(p)
    \/ \E r \in Readers : OthersIdle(r) /\ ReaderStep(r, Calls)

SpecSeq == Init /\ [][NextSeq]_vars

\* Requests served concurrently, interleaved at each store call, on a server
\* whose local clock is UTC.
ConcurrentCalls ==
    {[op |-> "stats"], [op |-> "live", minutes |-> DefaultMinutes],
     [op |-> "recent", limit |-> 1],
     [op |-> "count", days |-> None, hours |-> None],
     [op |-> "count", days |-> Some(1), hours |-> None]}

InitUTC == Init /\ tz = 0

Next ==
    \/ \E p \in Clients : /\ (pc[p] = "idle" => Visits < MaxConcurrentVisits)
                           /\ ClientStep(p)
    \/ \E r \in Readers : ReaderStep(r, ConcurrentCalls)

Spec == InitUTC /\ [][Next]_vars

\* ---------------------------------------------- get_time_ago on its own
\* get_time_ago applied to timestamps of chosen ages: within AgeSpan seconds
\* of each threshold and of its double, and the four ages of the examples.
Around(c) == (c - AgeSpan)..(c + AgeSpan)
Ages ==
    Around(0) \cup Around(SecPerMin) \cup Around(2 * SecPerMin)
    \cup Around(SecPerHour) \cup Around(2 * SecPerHour)
    \cup Around(SecPerDay) \cup Around(2 * SecPerDay)
    \cup {30, 90, 125 * SecPerMin, 50 * SecPerHour}

TimeAgoCall(age) ==
    /\ ago' = [age |-> age, label |-> get_time_ago(Start - age, Start)]
    /\ UNCHANGED <<pc, conn>>
    /\ UNCHANGED clientVars /\ UNCHANGED readerVars /\ UNCHANGED clockVars

NextTimeAgo == \E age \in Ages : TimeAgoCall(age)

SpecTimeAgo == InitUTC /\ [][NextTimeAgo]_vars

\* ================================================================ claims
Returned(r, op) == pc[r] = "done" /\ res.op = op
\* The operation returned its normal result, not that of its except clause.
ReturnedOk(r, op) == Returned(r, op) /\ res.ok
IsPrefix(s, t) == Len(s) <= Len(t) /\ SubSeq(t, 1, Len(s)) = s

\* C1: with requests served one at a time, the total_visitors that
\* get_visitor_stats reports (in a result that is not its error result) equals
\* the number of track_visitor calls that have returned True; and it cannot
\* decrease from one read to the next, because that number never decreases and
\* the table only ever grows at its end: no row is changed or removed.
C1_TotalIsRecordedVisits ==
    /\ [](\A r \in Readers : ReturnedOk(r, "stats") =>
              (res.total_visitors = nTrue /\ nTrue = Len(rows)))
    /\ [][nTrue' >= nTrue /\ IsPrefix(rows, rows')]_vars

C1_Witness ==
    \E r \in Readers : ReturnedOk(r, "stats") /\ res.total_visitors = 2 /\ nTrue = 2

\* C3: a storage fault at any step of track_visitor is absorbed: track_visitor
\* returns (True or False) and never raises, and the home request it belongs
\* to answers 200 whenever the page asset is there.
C3_TrackingFaultAbsorbed ==
    \A p \in Clients : pc[p] = "done" =>
        /\ response[p].tracked \in {"True", "False"}
        /\ (response[p].asset = "present" => response[p].status = 200)

\* C4: when an operation has returned, the connection it opened is closed,
\* whichever way it returned.
C4_ConnectionClosedOnReturn ==
    \A p \in Procs : pc[p] = "done" => conn[p] # "open"

\* C5: visitor_count given both days and hours rejects the request; given
\* neither, the total it returns is the number of rows of the table.
C5_BothRejectedNeitherAllTime ==
    \A r \in Readers : Returned(r, "count") =>
        /\ (res.days # None /\ res.hours # None => res.status # 200)
        /\ (res.days = None /\ res.hours = None /\ res.ok => res.total = Len(rows))

\* C9: for an age s >= 0, get_time_ago gives "just now" below 60 s, whole
\* minutes below 3600 s, whole hours below 86400 s and whole days from there,
\* each rounded down, the unit in the singular exactly when the number is 1.
Phrase(n, unit) ==
    ToString(n) \o " " \o unit \o (IF n = 1 THEN "" ELSE "s") \o " ago"
Expected(sec) ==
    IF sec < 60 THEN "just now"
    ELSE IF sec < 3600 THEN Phrase(sec \div 60, "minute")
    ELSE IF sec < 86400 THEN Phrase(sec \div 3600, "hour")
    ELSE Phrase(sec \div 86400, "day")

C9_TimeAgoLabels ==
    ago.age >= 0 =>
        /\ ago.label = Expected(ago.age)
        /\ (ago.age = 30 => ago.label = "just now")
        /\ (ago.age = 90 => ago.label = "1 minute ago")
        /\ (ago.age = 125 * 60 => ago.label = "2 hours ago")
        /\ (ago.age = 50 * 3600 => ago.label = "2 days ago")

C9_Witness == ago.age = 125 * 60 /\ ago.label = "2 hours ago"

\* The rows a unique count ranges over: all of them for get_visitor_stats,
\* those of the window for get_live_visitors and visitor_count.
InScope(result) ==
    CASE result.op = "stats" -> Matching(rows, All)
      [] result.op = "live" -> Matching(rows, SinceTime(result.time_ago))
      [] result.op = "count" -> Matching(rows, InPeriod(result))
UniqueOf(result) ==
    IF result.op = "stats" THEN result.unique_visitors ELSE result.unique
UniqueReturned(r) ==
    ReturnedOk(r, "stats") \/ ReturnedOk(r, "live") \/ ReturnedOk(r, "count")

\* C6 as claimed: the unique counts are the number of distinct
\* (client address, user-agent) pairs among the rows in scope.
C6_UniqueCountsPairs ==
    \A r \in Readers : UniqueReturned(r) =>
        UniqueOf(res) =
            Cardinality({<<rows[i].ip, rows[i].user_agent>> : i \in InScope(res)})

\* C6 as amended: the unique counts of a normally returned result are the
\* number of distinct client addresses (ip) among the rows in scope; the
\* user-agent plays no part.
C6_UniqueCountsAddresses ==
    \A r \in Readers : UniqueReturned(r) =>
        UniqueOf(res) = Cardinality({rows[i].ip : i \in InScope(res)})

\* Two visits from one address with different user-agents, counted as one.
C6_Witness ==
    \E r \in Readers :
        /\ ReturnedOk(r, "stats")
        /\ Len(rows) = 2
        /\ rows[1].ip = rows[2].ip /\ rows[1].user_agent # rows[2].user_agent
        /\ res.unique_visitors = 1 /\ res.total_visitors = 2

C8_Last24hRolling ==
    \A r \in Readers : ReturnedOk(r, "stats") =>
        res.last_24h_visitors =
            Cardinality({i \in DOMAIN rows : utc - rows[i].timestamp <= 24 * 3600})

\* track_visitor is not running in any request.
AllTrackReturned == \A p \in Clients : pc[p] \in {"idle", "serve", "done"}

\* C2: with writers interleaved at every store call, once all of them have
\* returned the table holds exactly one row per call that returned True, and
\* a total query issued then reports that number, which get_visitor_stats
\* hands on unchanged as total_visitors of its normal result.
C2_NoLostNoPhantomVisit ==
    /\ [](AllTrackReturned => Len(rows) = nTrue)
    /\ [][\A r \in Readers :
            /\ (AllTrackReturned /\ pc[r] = "gs_total" /\ pc'[r] = "gs_today"
                  => acc'.total = nTrue)
            /\ (pc[r] = "gs_24h" /\ pc'[r] = "done" /\ res'.ok
                  => res'.total_visitors = acc.total)]_vars

\* Both writers have returned, one True and one False, and the total read
\* afterwards is the one row.
C2_Witness ==
    /\ pc["c1"] = "serve" /\ pc["c2"] = "serve"
    /\ ret["c1"] = "True" /\ ret["c2"] = "False"
    /\ pc["r1"] = "gs_today" /\ acc.total = 1 /\ nTrue = 1

\* C10 as claimed: any one result is consistent in itself, whatever commits
\* run beside the call.
C10_ResultConsistent ==
    \A r \in Readers :
        /\ (ReturnedOk(r, "live") \/ ReturnedOk(r, "count") => res.unique <= res.total)
        /\ (ReturnedOk(r, "stats") =>
              /\ res.today_visitors <= res.week_visitors
              /\ res.week_visitors <= res.month_visitors
              /\ res.month_visitors <= res.total_visitors
              /\ res.unique_visitors <= res.total_visitors)

\* C10 as amended: in a normal result of get_visitor_stats today <= week <=
\* month, and no count of any of the three operations exceeds the number of
\* rows its WHERE clause selects from the table as it is when the call returns.
C10_ResultWithinStore ==
    \A r \in Readers :
        /\ (ReturnedOk(r, "live") \/ ReturnedOk(r, "count") =>
              /\ res.total <= Cardinality(InScope(res))
              /\ res.unique <= Cardinality(InScope(res)))
        /\ (ReturnedOk(r, "stats") =>
              /\ res.today_visitors <= res.week_visitors
              /\ res.week_visitors <= res.month_visitors
              /\ res.month_visitors <= Len(rows)
              /\ res.total_visitors <= Len(rows)
              /\ res.unique_visitors <= Len(rows))

\* A commit fell between the first query and a later one.
C10_Witness ==
    \E r \in Readers :
        /\ ReturnedOk(r, "stats")
        /\ res.total_visitors < res.month_visitors
        /\ res.month_visitors = Len(rows)

====
